---------------------------- MODULE Spec2Model ----------------------------
(***************************************************************************)
(* A model of the set-associative cache of src/Cache/cache.c and its       *)
(* header (src/unnamed/part_000, cache.h).                                 *)
(*                                                                         *)
(* The state is the cache_t object built by cache_new, the backing memory  *)
(* the cache reads from and writes to, and two records of what the caller  *)
(* has done: hist, the calls of cache_read / cache_write with what each    *)
(* returned, victims, the calls of choose_unmarked_cache_line with the     *)
(* line each returned, and calls, the calls of the other functions         *)
(* (cache_new, find_available_cache_line, cache_set_add,                   *)
(* cache_line_make_mru) with their arguments and results.                  *)
(*                                                                         *)
(* Every operator that models a C function is translated from the body     *)
(* that function has in cache.c.  Several of those bodies are placeholders *)
(* ("TO BE COMPLETED BY THE STUDENT") that return a constant and touch     *)
(* nothing; they are modelled as what they are.                            *)
(***************************************************************************)
EXTENDS Integers, Sequences, FiniteSets, TLC

VARIABLES cache, mem, hist, victims, calls

vars == <<cache, mem, hist, victims, calls>>

----------------------------------------------------------------------------
(* Bounds of the model *)

\* Longest sequence of cache_read / cache_write calls explored.
MaxCalls == 4

\* Longest sequence of choose_unmarked_cache_line calls explored.
MaxChoose == 3

----------------------------------------------------------------------------
(* Word arithmetic *)

RECURSIVE Pow2(_)
Pow2(n) == IF n <= 0 THEN 1 ELSE 2 * Pow2(n - 1)

\* x & y on naturals
RECURSIVE BitAnd(_, _)
BitAnd(x, y) ==
    IF x = 0 \/ y = 0 THEN 0
    ELSE (IF x % 2 = 1 /\ y % 2 = 1 THEN 1 ELSE 0) + 2 * BitAnd(x \div 2, y \div 2)

\* x << n and x >> n on 64-bit unsigned words.  Every word of the model
\* (addresses, masks) stays far below 2^31, where << loses no bit, so the
\* reduction modulo 2^64 is the identity and is left out.
ShiftLeft(x, n) == x * Pow2(n)
ShiftRight(x, n) == x \div Pow2(n)

----------------------------------------------------------------------------
(* cache.h: policy bits *)

CACHE_REPLACEMENTPOLICY_MASK == 28
CACHE_REPLACEMENTPOLICY_RANDOM == 0
CACHE_REPLACEMENTPOLICY_LRU == 4
CACHE_REPLACEMENTPOLICY_MRU == 8
CACHE_REPLACEMENTPOLICY_RANDOMIZED_MARKING == 16

CACHE_WRITEPOLICY_MASK == 3
CACHE_WRITEPOLICY_WRITETHROUGH == 0
CACHE_WRITEPOLICY_WRITEBACK == 1
CACHE_WRITEPOLICY_WRITEALLOCATE == 0
CACHE_WRITEPOLICY_WRITENOALLOCATE == 2

ReplacementPolicies ==
    { CACHE_REPLACEMENTPOLICY_RANDOM, CACHE_REPLACEMENTPOLICY_LRU,
      CACHE_REPLACEMENTPOLICY_MRU, CACHE_REPLACEMENTPOLICY_RANDOMIZED_MARKING }

\* Every combination of one replacement policy, through/back and
\* allocate/no-allocate, as the byte handed to cache_new.
PolicyBytes ==
    { r + w + a : r \in ReplacementPolicies,
                  w \in { CACHE_WRITEPOLICY_WRITETHROUGH, CACHE_WRITEPOLICY_WRITEBACK },
                  a \in { CACHE_WRITEPOLICY_WRITEALLOCATE, CACHE_WRITEPOLICY_WRITENOALLOCATE } }

ReplacementPolicy(c) == BitAnd(c.policies, CACHE_REPLACEMENTPOLICY_MASK)
IsWriteBack(c) == BitAnd(c.policies, CACHE_WRITEPOLICY_WRITEBACK) # 0
IsWriteThrough(c) == ~IsWriteBack(c)
IsNoAllocate(c) == BitAnd(c.policies, CACHE_WRITEPOLICY_WRITENOALLOCATE) # 0
IsWriteAllocate(c) == ~IsNoAllocate(c)

----------------------------------------------------------------------------
(* cache.c: construction *)

\* cache_line_t as calloc leaves it, with block = memory + i * line_size
\* (kept as the byte offset into cache->memory).
NewLine(i, line_size) ==
    [ is_valid |-> FALSE, is_dirty |-> FALSE, is_marked |-> FALSE,
      tag |-> 0, block |-> i * line_size ]

\* A cache_set_init that sets the valid bit instead of clearing it.
cache_set_init_sets_valid(lines, associativity, first_index) ==
    [ lines |-> [ j \in DOMAIN lines |->
                    IF first_index <= j /\ j < first_index + associativity
                    THEN [ lines[j] EXCEPT !.is_valid = TRUE ]
                    ELSE lines[j] ],
      set |-> [ first_index |-> first_index,
                lru_list |-> [ i \in 1..associativity |-> i - 1 ],
                num_marked |-> 0 ] ]

\* cache_set_init: the lines [first_index, first_index + associativity) are
\* made invalid, lru_list[i] = i and num_marked = 0.  Gives the line array and
\* the new set.  lru_list is a TLA+ sequence: lru_list[i] of the C code is
\* lru_list[i + 1] here.
cache_set_init(lines, associativity, first_index) ==
    [ lines |-> [ j \in DOMAIN lines |->
                    IF first_index <= j /\ j < first_index + associativity
                    THEN [ lines[j] EXCEPT !.is_valid = FALSE ]
                    ELSE lines[j] ],
      set |-> [ first_index |-> first_index,
                lru_list |-> [ i \in 1..associativity |-> i - 1 ],
                num_marked |-> 0 ] ]

RECURSIVE logbase2(_)
logbase2(value) == IF value > 1 THEN 1 + logbase2(value \div 2) ELSE 0

\* (1L << nbits) - 1, for 0 <= nbits < 63
maskbits(nbits) == Pow2(nbits) - 1

\* sizeof(uintptr_t), in bytes
SizeofUintptr == 8

\* sizeof(uint64_t), in bytes: the word cache_read and cache_write move.
\* Memory is kept word by word, a word at every multiple of WordBytes.
WordBytes == 8

\* A word of cache->memory that malloc returned and nothing has written yet.
\* No function of cache.c reads such a word.
Indeterminate == -1

\* a / b on size_t.  Division by zero is undefined: cache_new either traps
\* there (the CacheNew action decides that) or, where the divide instruction
\* does not trap, goes on with the quotient 0.
Quotient(a, b) == IF b = 0 THEN 0 ELSE a \div b

\* A cache_new that rounds the number of sets up instead of down.
cache_new_sizes_rounds_up(num_bytes, block_size, associativity) ==
    [ num_lines |-> Quotient(num_bytes, block_size),
      num_sets |-> Quotient(Quotient(num_bytes, block_size) + associativity - 1,
                            associativity) ]

\* cache_new, the size fields: num_lines = num_bytes / block_size and
\* num_sets = num_lines / associativity.
cache_new_sizes(num_bytes, block_size, associativity) ==
    [ num_lines |-> Quotient(num_bytes, block_size),
      num_sets |-> Quotient(Quotient(num_bytes, block_size), associativity) ]

\* A loop over the sets that forgets "first_index += associativity".
RECURSIVE InitSets_first_index_kept(_, _, _, _, _)
InitSets_first_index_kept(lines, sets, i, num_sets, associativity) ==
    IF i >= num_sets THEN [ lines |-> lines, sets |-> sets ]
    ELSE LET r == cache_set_init(lines, associativity, 0)
         IN  InitSets_first_index_kept(r.lines, Append(sets, r.set), i + 1,
                                       num_sets, associativity)

\* The loop of cache_new over the sets: set i is initialised with
\* first_index = i * associativity, on the line array the sets before it left.
RECURSIVE InitSets(_, _, _, _, _)
InitSets(lines, sets, i, num_sets, associativity) ==
    IF i >= num_sets THEN [ lines |-> lines, sets |-> sets ]
    ELSE LET r == cache_set_init(lines, associativity, i * associativity)
         IN  InitSets(r.lines, Append(sets, r.set), i + 1, num_sets, associativity)

\* cache_new.  sets is kept as a function on 0..num_sets-1.
cache_new(num_bytes, block_size, associativity, policies) ==
    LET num_lines == cache_new_sizes(num_bytes, block_size, associativity).num_lines
        num_sets == cache_new_sizes(num_bytes, block_size, associativity).num_sets
        offset_bits == logbase2(block_size)
        offset_mask == maskbits(offset_bits)
        index_bits == logbase2(num_sets)
        index_mask == maskbits(index_bits)
        tag_shift == offset_bits + index_bits
        calloced == [ i \in 0..(num_lines - 1) |-> NewLine(i, block_size) ]
        inited == InitSets(calloced, << >>, 0, num_sets, associativity)
    IN  [ access_count |-> 0,
          miss_count |-> 0,
          policies |-> policies,
          line_size |-> block_size,
          num_lines |-> num_lines,
          associativity |-> associativity,
          num_sets |-> num_sets,
          block_offset_mask |-> offset_mask,
          cache_index_shift |-> offset_bits,
          cache_index_mask |-> ShiftLeft(index_mask, offset_bits),
          tag_shift |-> tag_shift,
          tag_mask |-> ShiftLeft(maskbits(SizeofUintptr - tag_shift), tag_shift),
          memory |-> [ w \in 0..((num_bytes \div WordBytes) - 1) |-> Indeterminate ],
          lines |-> inited.lines,
          sets |-> [ s \in 0..(num_sets - 1) |-> inited.sets[s + 1] ] ]

----------------------------------------------------------------------------
(* cache.c: the helpers declared in cache.h *)

\* A null cache_line_t pointer; a line pointer is otherwise the line's index
\* in cache->lines.
NULL == -1

\* cache_line_check_validity_and_tag: "return 0".
cache_line_check_validity_and_tag(cache_line, tag) == FALSE

\* cache_line_retrieve_data: "return 0".
cache_line_retrieve_data(cache_line, offset) == 0

\* cache_set_find_matching_line: "return NULL"; the cache is not touched.
cache_set_find_matching_line(c, s, tag) == [ cache |-> c, line |-> NULL ]

\* choose_unmarked_cache_line: "return 0"; no line is marked, the generator
\* is not called.  A generator (func_t) is modelled by the set of numbers a
\* call of it may return.
choose_unmarked_cache_line(c, s, generate_random_number) == [ cache |-> c, index |-> 0 ]

\* find_available_cache_line: "return NULL"; the cache is not touched.
find_available_cache_line(c, s, generate_random_number) == [ cache |-> c, line |-> NULL ]

\* A cache_line_make_mru that stores the line index in the last slot without
\* closing the gap it leaves.
cache_line_make_mru_no_shift(c, s, line_index) ==
    [ c EXCEPT !.sets[s].lru_list[c.associativity] = line_index ]

\* A cache_line_make_mru that exchanges the line index with the last slot.
cache_line_make_mru_swaps(c, s, line_index) ==
    LET lru == c.sets[s].lru_list
        n == c.associativity
        at == CHOOSE k \in 1..n : lru[k] = line_index
    IN  [ c EXCEPT !.sets[s].lru_list =
            [ lru EXCEPT ![at] = lru[n], ![n] = line_index ] ]

\* cache_line_make_mru: the first slot holding line_index is found, the slots
\* after it move one place towards the front, and line_index is stored in the
\* last slot.  When no slot holds line_index the index found is (size_t) -1:
\* every slot moves, the first one onto lru_list[-1], outside the list.
cache_line_make_mru(c, s, line_index) ==
    LET lru == c.sets[s].lru_list
        n == c.associativity
        found == { i \in 0..(n - 1) : lru[i + 1] = line_index }
        index_of_line_index ==
            IF found = {} THEN -1
            ELSE CHOOSE i \in found : \A j \in found : i <= j
    IN  [ c EXCEPT !.sets[s].lru_list =
            [ k \in 1..n |->
                IF k = n THEN line_index
                ELSE IF k - 1 >= index_of_line_index THEN lru[k + 1]
                ELSE lru[k] ] ]

\* What the stores through a null cache_line_t pointer in cache_set_add may
\* do (undefined behaviour): the process is killed at the first store, or the
\* stores are dropped and the null pointer is returned.
NullStoreOutcomes == { "trap", "dropped" }

\* memcpy(line->block, (void *)(address & ~block_offset_mask), line_size) on
\* cache->memory, word by word.
CopyBlock(c, m, line, address) ==
    LET base == address - BitAnd(address, c.block_offset_mask)
        first == c.lines[line].block \div WordBytes
        words == c.line_size \div WordBytes
    IN  [ w \in DOMAIN c.memory |->
            IF first <= w /\ w < first + words
            THEN m[base + WordBytes * (w - first)]
            ELSE c.memory[w] ]

\* cache_set_add: the line find_available_cache_line returns gets the tag,
\* the valid bit and a copy of the block of backing memory; is_dirty and
\* is_marked are not touched.  Gives the set of possible results: one when the
\* line is a line, those of NullStoreOutcomes when it is NULL.
cache_set_add(c, m, s, address, tag, generate_random_number) ==
    LET found == find_available_cache_line(c, s, generate_random_number)
        line == found.line
    IN  IF line = NULL
        THEN { [ cache |-> found.cache, line |-> NULL, outcome |-> o ] :
                 o \in NullStoreOutcomes }
        ELSE { [ cache |-> [ found.cache EXCEPT
                               !.lines[line].tag = tag,
                               !.lines[line].is_valid = TRUE,
                               !.memory = CopyBlock(found.cache, m, line, address) ],
                 line |-> line,
                 outcome |-> "returned" ] }

----------------------------------------------------------------------------
(* cache.c: the accesses *)

\* A cache_read that counts a miss and forgets to count the access.
cache_read_counts_miss_only(c, m, address, generate_random_number) ==
    [ cache |-> [ c EXCEPT !.miss_count = @ + 1 ], mem |-> m, ret |-> 0 ]

\* cache_read: "return 0"; neither the cache nor memory is touched.
cache_read(c, m, address, generate_random_number) == [ cache |-> c, mem |-> m, ret |-> 0 ]

\* cache_write: empty body; neither the cache nor memory is touched.
cache_write(c, m, address, value, generate_random_number) == [ cache |-> c, mem |-> m ]

cache_miss_count(c) == c.miss_count

cache_access_count(c) == c.access_count

----------------------------------------------------------------------------
(* The callers' inputs *)

\* Geometries handed to cache_new: 256 bytes in 16-byte lines, 2-way
\* (16 lines, 8 sets, tag_shift 7), and 128 bytes in 16-byte lines, 2-way
\* (8 lines, 4 sets, tag_shift 6).
Geometries ==
    { [ num_bytes |-> 256, block_size |-> 16, associativity |-> 2 ],
      [ num_bytes |-> 128, block_size |-> 16, associativity |-> 2 ] }

\* Word-aligned addresses 0x00, 0x40, 0x80.  With 4 sets they fall in set 0
\* with the tags 0, 1, 2; with 8 sets 0x00 and 0x80 fall in set 0 (tags 0, 1)
\* and 0x40 in set 4.
Addresses == { 0, 64, 128 }

\* Words written by cache_write.
Values == { 1, 2 }

\* The injected generator: the numbers a call of it may return.
RandomNumbers == { 0, 1 }

\* The word addresses of backing memory: every word of the blocks that hold
\* the addresses accessed.
MemoryAddresses == { WordBytes * i : i \in 0..23 }

\* Backing memory before the first access: the word at each address.
InitialMemory == [ a \in MemoryAddresses |-> 0 ]

----------------------------------------------------------------------------
(* Address fields, by the masks and shifts cache_new computed *)

BlockOffsetOf(c, a) == BitAnd(a, c.block_offset_mask)
SetIndexOf(c, a) == ShiftRight(BitAnd(a, c.cache_index_mask), c.cache_index_shift)
TagOf(c, a) == ShiftRight(BitAnd(a, c.tag_mask), c.tag_shift)

\* The indices in cache->lines of the lines of set s.
LinesOf(c, s) ==
    { c.sets[s].first_index + i : i \in 0..(c.associativity - 1) }

\* The valid lines of a's set that carry a's tag.
ResidentLines(c, a) ==
    { l \in LinesOf(c, SetIndexOf(c, a)) :
        c.lines[l].is_valid /\ c.lines[l].tag = TagOf(c, a) }

----------------------------------------------------------------------------
(* The specification of the accesses *)

Init ==
    /\ \E g \in Geometries, p \in PolicyBytes :
          cache = cache_new(g.num_bytes, g.block_size, g.associativity, p)
    /\ mem = InitialMemory
    /\ hist = << >>
    /\ victims = << >>
    /\ calls = << >>

\* A call of cache_read(cache, a, generator).
CacheRead ==
    \E a \in Addresses :
        /\ Len(hist) < MaxCalls
        /\ LET r == cache_read(cache, mem, a, RandomNumbers)
           IN  /\ cache' = r.cache
               /\ mem' = r.mem
               /\ hist' = Append(hist, [ op |-> "read", address |-> a,
                                         value |-> 0, ret |-> r.ret ])
        /\ UNCHANGED << victims, calls >>

\* A call of cache_write(cache, a, v, generator).
CacheWrite ==
    \E a \in Addresses, v \in Values :
        /\ Len(hist) < MaxCalls
        /\ LET r == cache_write(cache, mem, a, v, RandomNumbers)
           IN  /\ cache' = r.cache
               /\ mem' = r.mem
               /\ hist' = Append(hist, [ op |-> "write", address |-> a,
                                         value |-> v, ret |-> 0 ])
        /\ UNCHANGED << victims, calls >>

Next == CacheRead \/ CacheWrite

Spec == Init /\ [][Next]_vars

----------------------------------------------------------------------------
(* The specification of the victim choice of randomized marking *)

\* A cache whose sets the caller has filled: every line valid and unmarked,
\* the lines of a set carrying the tags 0 .. associativity-1.
Populated(c) ==
    [ c EXCEPT !.lines =
        [ l \in DOMAIN c.lines |->
            [ c.lines[l] EXCEPT !.is_valid = TRUE, !.tag = l % c.associativity ] ] ]

MarkingPolicyBytes ==
    { p \in PolicyBytes :
        BitAnd(p, CACHE_REPLACEMENTPOLICY_MASK) = CACHE_REPLACEMENTPOLICY_RANDOMIZED_MARKING }

InitMarking ==
    /\ \E g \in Geometries, p \in MarkingPolicyBytes :
          LET c == cache_new(g.num_bytes, g.block_size, g.associativity, p)
          IN  cache \in { c, Populated(c) }
    /\ mem = InitialMemory
    /\ hist = << >>
    /\ victims = << >>
    /\ calls = << >>

\* A call of choose_unmarked_cache_line(cache, &cache->sets[s], generator).
ChooseUnmarked ==
    \E s \in DOMAIN cache.sets :
        /\ Len(victims) < MaxChoose
        /\ LET r == choose_unmarked_cache_line(cache, s, RandomNumbers)
           IN  /\ cache' = r.cache
               /\ victims' = Append(victims, [ set |-> s, index |-> r.index ])
        /\ UNCHANGED << mem, hist, calls >>

NextMarking == ChooseUnmarked

SpecMarking == InitMarking /\ [][NextMarking]_vars

----------------------------------------------------------------------------
(* What the caller has seen *)

\* The last call of cache_read / cache_write.
Last == hist[Len(hist)]

HasRead == \E i \in 1..Len(hist) : hist[i].op = "read"
HasWrite == \E i \in 1..Len(hist) : hist[i].op = "write"

\* The first byte address of a's block.
BlockOf(c, a) == a - BlockOffsetOf(c, a)

----------------------------------------------------------------------------
(* Claims about the counters *)

\* C1: every cache_read and every cache_write increases access_count by
\* exactly one and increases miss_count by zero or one.
C1_CountersStep ==
    [][ hist' # hist =>
          /\ cache_access_count(cache') = cache_access_count(cache) + 1
          /\ cache_miss_count(cache') \in
                { cache_miss_count(cache), cache_miss_count(cache) + 1 } ]_vars

\* C2: in every state reached from cache_new by reads and writes,
\* access_count >= miss_count >= 0.
C2_CountersOrdered ==
    /\ cache_access_count(cache) >= cache_miss_count(cache)
    /\ cache_miss_count(cache) >= 0

\* C2 witness: reads and writes have been made, and the counters are ordered.
C2_Witness ==
    /\ HasRead /\ HasWrite
    /\ C2_CountersOrdered

----------------------------------------------------------------------------
(* Claims about the lines of a set *)

\* No set holds two distinct valid lines with the same tag.
NoDuplicateTag(c) ==
    \A s \in DOMAIN c.sets :
        \A l1, l2 \in LinesOf(c, s) :
            (c.lines[l1].is_valid /\ c.lines[l2].is_valid
                /\ c.lines[l1].tag = c.lines[l2].tag) => l1 = l2

\* The lines that an access installs: valid afterwards, and either not valid
\* before or valid with another tag.
Installed(c, d) ==
    { l \in DOMAIN c.lines :
        /\ d.lines[l].is_valid
        /\ ~c.lines[l].is_valid \/ c.lines[l].tag # d.lines[l].tag }

\* C3: no set ever holds two distinct valid lines with the same tag, and an
\* access installs a line for a tag only if no valid line of the line's set
\* carried that tag before the access.
C3_NoDuplicateTag ==
    /\ []NoDuplicateTag(cache)
    /\ [][ \A l \in Installed(cache, cache') :
              \A s \in DOMAIN cache.sets :
                  l \in LinesOf(cache, s) =>
                      \A k \in LinesOf(cache, s) :
                          ~(cache.lines[k].is_valid
                              /\ cache.lines[k].tag = cache'.lines[l].tag) ]_vars

\* C3 witness: one address has been read and then written (the second access
\* is the one that could install its tag a second time), and no set holds a
\* duplicate.
C3_Witness ==
    /\ \E i, j \in 1..Len(hist) :
          /\ i < j
          /\ hist[i].address = hist[j].address
          /\ hist[i].op = "read" /\ hist[j].op = "write"
    /\ NoDuplicateTag(cache)

----------------------------------------------------------------------------
(* Claims about the words read and written *)

\* C4: cache_write(a, v) immediately followed by cache_read(a) returns v,
\* under every policy.
C4_WriteThenRead ==
    \A i \in 1..(Len(hist) - 1) :
        (/\ hist[i].op = "write"
         /\ hist[i + 1].op = "read"
         /\ hist[i + 1].address = hist[i].address)
            => hist[i + 1].ret = hist[i].value

----------------------------------------------------------------------------
(* Claims about replacement *)

\* The first n calls are reads of n distinct blocks that all map to the set
\* of the first one.
DistinctSameSetReads(n) ==
    /\ n >= 1 /\ n <= Len(hist)
    /\ \A i \in 1..n :
          /\ hist[i].op = "read"
          /\ SetIndexOf(cache, hist[i].address) = SetIndexOf(cache, hist[1].address)
    /\ \A i, j \in 1..n :
          i # j => BlockOf(cache, hist[i].address) # BlockOf(cache, hist[j].address)

IsResident(c, a) == ResidentLines(c, a) # {}

\* C5: under LRU with associativity k, from an empty set, k+1 reads of
\* distinct blocks of one set are all misses; the first k fill the set and
\* evict nothing, the (k+1)-th evicts the first-read block and no other.
C5_LRUEvictsFirst ==
    LET k == cache.associativity
        n == Len(hist)
    IN  (/\ ReplacementPolicy(cache) = CACHE_REPLACEMENTPOLICY_LRU
         /\ n <= k + 1
         /\ DistinctSameSetReads(n))
            => /\ cache_miss_count(cache) = n
               /\ n <= k => \A i \in 1..n : IsResident(cache, hist[i].address)
               /\ n = k + 1 =>
                     /\ ~IsResident(cache, hist[1].address)
                     /\ \A i \in 2..n : IsResident(cache, hist[i].address)

\* The cache after the reads of the addresses of as, in order.
RECURSIVE RunReads(_, _, _)
RunReads(c, m, as) ==
    IF as = << >> THEN c
    ELSE LET r == cache_read(c, m, Head(as), RandomNumbers)
         IN  RunReads(r.cache, r.mem, Tail(as))

\* The cache as cache_new built it, from the geometry c keeps.
FreshCache(c) ==
    cache_new(c.num_lines * c.line_size, c.line_size, c.associativity, c.policies)

\* Of the first n addresses read, those whose block c no longer holds.
EvictedOfFirst(c, n) == { i \in 1..n : ~IsResident(c, hist[i].address) }

\* C6: under LRU with associativity k, after reads of k distinct blocks of one
\* set, reading again one of them other than the first before reading a
\* (k+1)-th distinct block of the set makes that last read evict another line
\* than it evicts in the run without the repeated read.
C6_LRUReaccessChangesVictim ==
    LET k == cache.associativity
        first == [ i \in 1..k |-> hist[i].address ]
    IN  (/\ ReplacementPolicy(cache) = CACHE_REPLACEMENTPOLICY_LRU
         /\ Len(hist) = k + 2
         /\ DistinctSameSetReads(k)
         /\ hist[k + 1].op = "read"
         /\ \E j \in 2..k : hist[k + 1].address = hist[j].address
         /\ hist[k + 2].op = "read"
         /\ SetIndexOf(cache, hist[k + 2].address) = SetIndexOf(cache, hist[1].address)
         /\ \A i \in 1..k :
               BlockOf(cache, hist[k + 2].address) # BlockOf(cache, hist[i].address))
            => EvictedOfFirst(cache, k) #
               EvictedOfFirst(RunReads(FreshCache(cache), InitialMemory,
                                       Append(first, hist[k + 2].address)), k)

\* C7: under MRU with associativity k, from an empty set, after k+1 reads of
\* distinct blocks of one set the k-th block is the one evicted, and the line
\* holding the (k+1)-th block is the last element of the set's lru_list.
C7_MRUEvictsNewest ==
    LET k == cache.associativity
        s == SetIndexOf(cache, hist[1].address)
    IN  (/\ ReplacementPolicy(cache) = CACHE_REPLACEMENTPOLICY_MRU
         /\ Len(hist) = k + 1
         /\ DistinctSameSetReads(k + 1))
            => /\ ~IsResident(cache, hist[k].address)
               /\ \A i \in 1..(k - 1) : IsResident(cache, hist[i].address)
               /\ \E l \in ResidentLines(cache, hist[k + 1].address) :
                     cache.sets[s].lru_list[k] = l - cache.sets[s].first_index

\* The lines choose_unmarked_cache_line returned for set s, in order.
VictimsOf(s) ==
    LET chosen == SelectSeq(victims, LAMBDA v : v.set = s)
    IN  [ i \in 1..Len(chosen) |-> chosen[i].index ]

SetIsFull(c, s) == \A l \in LinesOf(c, s) : c.lines[l].is_valid

\* C8: under RANDOMIZED_MARKING, in a full set, whatever the generator
\* returns, a line is chosen as victim a second time only after every other
\* line of the set has been chosen.
C8_MarkingFairness ==
    ReplacementPolicy(cache) = CACHE_REPLACEMENTPOLICY_RANDOMIZED_MARKING =>
        \A s \in DOMAIN cache.sets :
            SetIsFull(cache, s) =>
                LET v == VictimsOf(s)
                IN  \A j \in 1..Len(v) :
                        (\E i \in 1..(j - 1) : v[i] = v[j]) =>
                            \A l \in 0..(cache.associativity - 1) :
                                \E i \in 1..(j - 1) : v[i] = l

----------------------------------------------------------------------------
(* Claims about the write policies *)

\* The calls that wrote to address a.
WritesTo(a) ==
    { i \in 1..Len(hist) : hist[i].op = "write" /\ hist[i].address = a }

Max(S) == CHOOSE x \in S : \A y \in S : y <= x

\* The word last written to a.
LastWritten(a) == hist[Max(WritesTo(a))].value

\* C9: under write-back (with write-allocate), a word written to a line that
\* has since been evicted is in backing memory: no write is lost.
C9_DirtyWrittenBack ==
    (IsWriteBack(cache) /\ IsWriteAllocate(cache)) =>
        \A a \in Addresses :
            (WritesTo(a) # {} /\ ~IsResident(cache, a)) => mem[a] = LastWritten(a)

\* C10: under write-through (with write-allocate, so on a hit and on a miss),
\* right after cache_write(a, v) backing memory holds v at a; and no line is
\* ever dirty.
C10_WriteThrough ==
    IsWriteThrough(cache) =>
        /\ \A l \in DOMAIN cache.lines : ~cache.lines[l].is_dirty
        /\ (/\ IsWriteAllocate(cache)
            /\ hist # << >>
            /\ Last.op = "write") => mem[Last.address] = Last.value

\* C11: under write-no-allocate, a cache_write that misses adds one to
\* miss_count, stores the value in backing memory and leaves every line
\* (valid, tag, dirty, marked, block) and every lru_list as it was; a
\* cache_read of the same address right after it is a miss.
C11_NoAllocateWriteMiss ==
    [][ (IsNoAllocate(cache) /\ Len(hist') = Len(hist) + 1) =>
          LET call == hist'[Len(hist')]
          IN  /\ (call.op = "write" /\ ~IsResident(cache, call.address)) =>
                    /\ cache_miss_count(cache') = cache_miss_count(cache) + 1
                    /\ mem'[call.address] = call.value
                    /\ cache'.lines = cache.lines
                    /\ cache'.memory = cache.memory
                    /\ cache'.sets = cache.sets
              /\ (/\ call.op = "read"
                  /\ hist # << >>
                  /\ Last.op = "write"
                  /\ Last.address = call.address
                  /\ ~IsResident(cache, call.address)) =>
                    cache_miss_count(cache') = cache_miss_count(cache) + 1 ]_vars

----------------------------------------------------------------------------
(* The specification of construction *)

\* Bounds: the largest associativity handed to cache_new, and the longest
\* sequence of accesses made on the cache it returned.
MaxAssociativity == 3
MaxNewAccesses == 1

\* Arguments handed to cache_new, valid and invalid: sizes that are zero,
\* that are no power of two, line counts the associativity does not divide.
NewNumBytes == { 0, 64, 96, 128 }
NewBlockSizes == { 0, 8, 16, 24 }
NewAssociativities == 0..MaxAssociativity

\* No cache_t yet.
NoCache == [ built |-> FALSE ]

InitNew ==
    /\ cache = NoCache
    /\ mem = InitialMemory
    /\ hist = << >>
    /\ victims = << >>
    /\ calls = << >>

\* A call of cache_new(nb, bs, as, p).  With bs = 0 or as = 0 a division by
\* zero is executed: it traps (no cache) or the call goes on.  In every other
\* case the call returns the cache; cache_new has no other way out.
CacheNew ==
    \E nb \in NewNumBytes, bs \in NewBlockSizes, as \in NewAssociativities,
       p \in PolicyBytes :
        /\ calls = << >>
        /\ \E outcome \in (IF bs = 0 \/ as = 0 THEN { "trap", "returned" }
                                               ELSE { "returned" }) :
              /\ cache' = IF outcome = "returned" THEN cache_new(nb, bs, as, p)
                                                  ELSE NoCache
              /\ calls' = << [ fn |-> "cache_new", num_bytes |-> nb,
                               block_size |-> bs, associativity |-> as,
                               policies |-> p, outcome |-> outcome ] >>
        /\ UNCHANGED << mem, hist, victims >>

\* cache_new was called and returned a cache.
Built == calls # << >> /\ calls[1].fn = "cache_new" /\ calls[1].outcome = "returned"

\* A cache_read or cache_write on the cache cache_new returned.
AccessBuilt ==
    /\ Built
    /\ Len(hist) < MaxNewAccesses
    /\ \/ \E a \in Addresses :
             LET r == cache_read(cache, mem, a, RandomNumbers)
             IN  /\ cache' = r.cache
                 /\ mem' = r.mem
                 /\ hist' = Append(hist, [ op |-> "read", address |-> a,
                                           value |-> 0, ret |-> r.ret ])
       \/ \E a \in Addresses, v \in Values :
             LET r == cache_write(cache, mem, a, v, RandomNumbers)
             IN  /\ cache' = r.cache
                 /\ mem' = r.mem
                 /\ hist' = Append(hist, [ op |-> "write", address |-> a,
                                           value |-> v, ret |-> 0 ])
    /\ UNCHANGED << victims, calls >>

NextNew == CacheNew \/ AccessBuilt

SpecNew == InitNew /\ [][NextNew]_vars

----------------------------------------------------------------------------
(* Claims about construction *)

IsPowerOfTwo(n) == n > 0 /\ Pow2(logbase2(n)) = n

\* The configurations the interface calls invalid.
InvalidConfiguration(nb, bs, as) ==
    \/ ~IsPowerOfTwo(nb)
    \/ ~IsPowerOfTwo(bs)
    \/ as = 0
    \/ (nb \div bs) % as # 0

IsPartition(c) ==
    /\ c.num_lines = c.num_sets * c.associativity
    /\ \A s \in DOMAIN c.sets : LinesOf(c, s) \subseteq DOMAIN c.lines
    /\ \A l \in DOMAIN c.lines :
          Cardinality({ s \in DOMAIN c.sets : l \in LinesOf(c, s) }) = 1

----------------------------------------------------------------------------
(* The specification of line installation *)

\* Longest sequence of find_available_cache_line / cache_set_add calls.
MaxInstallCalls == 2

\* A cache in which the caller has filled the first line of every set (tag 0)
\* and left the others invalid.
PartlyPopulated(c) ==
    [ c EXCEPT !.lines =
        [ l \in DOMAIN c.lines |->
            IF l % c.associativity = 0
            THEN [ c.lines[l] EXCEPT !.is_valid = TRUE, !.tag = 0 ]
            ELSE c.lines[l] ] ]

InitInstall ==
    /\ \E g \in Geometries, p \in PolicyBytes :
          LET c == cache_new(g.num_bytes, g.block_size, g.associativity, p)
          IN  cache \in { c, PartlyPopulated(c), Populated(c) }
    /\ mem = InitialMemory
    /\ hist = << >>
    /\ victims = << >>
    /\ calls = << >>

\* No call so far has killed the process.
Alive == \A i \in 1..Len(calls) : calls[i].outcome # "trap"

\* A call of find_available_cache_line(cache, &cache->sets[s], generator).
FindAvailable ==
    \E s \in DOMAIN cache.sets :
        /\ Alive
        /\ Len(calls) < MaxInstallCalls
        /\ LET r == find_available_cache_line(cache, s, RandomNumbers)
           IN  /\ cache' = r.cache
               /\ calls' = Append(calls, [ fn |-> "find_available_cache_line",
                                           set |-> s, address |-> 0,
                                           line |-> r.line, outcome |-> "returned" ])
        /\ UNCHANGED << mem, hist, victims >>

\* A call of cache_set_add(cache, set of a, a, tag of a, generator), the step
\* that installs the block of address a.
CacheSetAdd ==
    \E a \in Addresses :
        /\ Alive
        /\ Len(calls) < MaxInstallCalls
        /\ \E r \in cache_set_add(cache, mem, SetIndexOf(cache, a), a,
                                  TagOf(cache, a), RandomNumbers) :
              /\ cache' = r.cache
              /\ calls' = Append(calls, [ fn |-> "cache_set_add",
                                          set |-> SetIndexOf(cache, a), address |-> a,
                                          line |-> r.line, outcome |-> r.outcome ])
        /\ UNCHANGED << mem, hist, victims >>

NextInstall == FindAvailable \/ CacheSetAdd

SpecInstall == InitInstall /\ [][NextInstall]_vars

----------------------------------------------------------------------------
(* Claims about line installation *)

HasInvalidLine(c, s) == \E l \in LinesOf(c, s) : ~c.lines[l].is_valid

\* The first invalid line of set s, in set-local order.
FirstInvalidLine(c, s) ==
    CHOOSE l \in LinesOf(c, s) :
        /\ ~c.lines[l].is_valid
        /\ \A k \in LinesOf(c, s) : ~c.lines[k].is_valid => l <= k

\* The words of cache->memory that are the block of line l.
BlockWords(c, l) ==
    [ w \in 0..((c.line_size \div WordBytes) - 1) |->
        c.memory[(c.lines[l].block \div WordBytes) + w] ]

\* The words of backing memory that are the block of address a.
MemoryBlock(c, m, a) ==
    [ w \in 0..((c.line_size \div WordBytes) - 1) |-> m[BlockOf(c, a) + WordBytes * w] ]

\* C13: when a set still has an invalid line, the line chosen for new data is
\* the first invalid line in set-local order, under every replacement policy,
\* and no valid line of the set is overwritten or invalidated.
C13_FreeLineFirst ==
    [][ Len(calls') = Len(calls) + 1 =>
          LET call == calls'[Len(calls')]
          IN  HasInvalidLine(cache, call.set) =>
                 /\ call.outcome = "returned"
                 /\ call.line = FirstInvalidLine(cache, call.set)
                 /\ \A l \in LinesOf(cache, call.set) :
                       cache.lines[l].is_valid =>
                          /\ cache'.lines[l] = cache.lines[l]
                          /\ BlockWords(cache', l) = BlockWords(cache, l) ]_vars

\* C15: right after cache_set_add installs the block of an address, the line
\* is valid, carries the tag of the address, holds the line_size bytes of
\* backing memory at the block-aligned address, and is not dirty.
C15_InstalledLine ==
    [][ (Len(calls') = Len(calls) + 1 /\ calls'[Len(calls')].fn = "cache_set_add") =>
          LET call == calls'[Len(calls')]
          IN  /\ call.outcome = "returned"
              /\ call.line # NULL
              /\ cache'.lines[call.line].is_valid
              /\ cache'.lines[call.line].tag = TagOf(cache, call.address)
              /\ ~cache'.lines[call.line].is_dirty
              /\ BlockWords(cache', call.line) = MemoryBlock(cache, mem, call.address) ]_vars

----------------------------------------------------------------------------
(* Claims about address decoding *)

\* Largest address decoded: one bit above the bits sizeof(uintptr_t) counts.
MaxAddress == 511

\* The address the three fields of a stand for.
Recompose(c, a) ==
    ShiftLeft(TagOf(c, a), c.tag_shift)
      + ShiftLeft(SetIndexOf(c, a), c.cache_index_shift)
      + BlockOffsetOf(c, a)

\* C14: for every valid geometry and every address, the masks and shifts of
\* cache_new split the address into disjoint fields that cover all its bits
\* (offset, set index, and the tag as all remaining high bits), so the address
\* is (tag << tag_shift) | (set_index << cache_index_shift) | block_offset, and
\* two addresses in different blocks never decode to the same (tag, set index).
C14_FieldsCoverAddress ==
    ( /\ Built
      /\ ~InvalidConfiguration(calls[1].num_bytes, calls[1].block_size,
                               calls[1].associativity) ) =>
        /\ \A a \in 0..MaxAddress : Recompose(cache, a) = a
        /\ \A a, b \in 0..MaxAddress :
              ( a - BlockOffsetOf(cache, a) # b - BlockOffsetOf(cache, b) ) =>
                 << TagOf(cache, a), SetIndexOf(cache, a) >>
                   # << TagOf(cache, b), SetIndexOf(cache, b) >>

----------------------------------------------------------------------------
(* The specification of the recency lists *)

\* Longest sequence of cache_line_make_mru calls and accesses.
MaxMru == 3

\* Four-way geometries: one set and two sets.
MruGeometries ==
    { [ num_bytes |-> 64, block_size |-> 16, associativity |-> 4 ],
      [ num_bytes |-> 128, block_size |-> 16, associativity |-> 4 ] }

InitMru ==
    /\ \E g \in MruGeometries :
          LET c == cache_new(g.num_bytes, g.block_size, g.associativity,
                             CACHE_REPLACEMENTPOLICY_LRU)
          IN  cache \in { c, Populated(c) }
    /\ mem = InitialMemory
    /\ hist = << >>
    /\ victims = << >>
    /\ calls = << >>

\* A call of cache_line_make_mru(cache, &cache->sets[s], i) with a set-local
\* index i in [0, associativity).
MakeMru ==
    \E s \in DOMAIN cache.sets, i \in 0..(cache.associativity - 1) :
        /\ Len(calls) + Len(hist) < MaxMru
        /\ cache' = cache_line_make_mru(cache, s, i)
        /\ calls' = Append(calls, [ fn |-> "cache_line_make_mru", set |-> s,
                                    line_index |-> i, outcome |-> "returned" ])
        /\ UNCHANGED << mem, hist, victims >>

\* A cache_read or a cache_write between the cache_line_make_mru calls.
MruAccess ==
    /\ Len(calls) + Len(hist) < MaxMru
    /\ \/ \E a \in Addresses :
             LET r == cache_read(cache, mem, a, RandomNumbers)
             IN  /\ cache' = r.cache
                 /\ mem' = r.mem
                 /\ hist' = Append(hist, [ op |-> "read", address |-> a,
                                           value |-> 0, ret |-> r.ret ])
       \/ \E a \in Addresses, v \in Values :
             LET r == cache_write(cache, mem, a, v, RandomNumbers)
             IN  /\ cache' = r.cache
                 /\ mem' = r.mem
                 /\ hist' = Append(hist, [ op |-> "write", address |-> a,
                                           value |-> v, ret |-> 0 ])
    /\ UNCHANGED << victims, calls >>

NextMru == MakeMru \/ MruAccess

SpecMru == InitMru /\ [][NextMru]_vars

----------------------------------------------------------------------------
(* Claims about the recency lists *)

\* seq holds every index in [0, n) exactly once.
IsPermutation(seq, n) ==
    /\ Len(seq) = n
    /\ \A i \in 0..(n - 1) : \E k \in 1..n : seq[k] = i
    /\ \A k, l \in 1..n : seq[k] = seq[l] => k = l

\* The positions in calls of the cache_line_make_mru calls on set s.
MruCallsOn(s) ==
    { k \in 1..Len(calls) : calls[k].fn = "cache_line_make_mru" /\ calls[k].set = s }

\* The last element of the recency list of set s: lru_list[associativity - 1].
MruOf(c, s) == c.sets[s].lru_list[c.associativity]

\* seq without the index i.
Without(seq, i) == SelectSeq(seq, LAMBDA x : x # i)

C17_MakeMru ==
    [][ Len(calls') = Len(calls) + 1 =>
          LET s == calls'[Len(calls')].set
              i == calls'[Len(calls')].line_index
              old == cache.sets[s].lru_list
              new == cache'.sets[s].lru_list
          IN  /\ MruOf(cache', s) = i
              /\ Without(new, i) = Without(old, i)
              /\ Len(new) = Len(old)
              /\ cache' = [ cache EXCEPT !.sets[s].lru_list = new ]
              /\ mem' = mem
              /\ cache_line_make_mru(cache', s, i) = cache' ]_vars

\* A call has moved the first index of a list to its end.
C17_Witness ==
    \E k \in 1..Len(calls) :
        /\ calls[k].fn = "cache_line_make_mru"
        /\ calls[k].line_index = 0
        /\ Len(calls) = k
        /\ cache.sets[calls[k].set].lru_list = << 1, 2, 3, 0 >>


\* The set-local indices of the valid lines of set s.
ValidIndices(c, s) ==
    { i \in 0..(c.associativity - 1) : c.lines[c.sets[s].first_index + i].is_valid }

\* C18: under LRU, after any sequence of accesses, every index of an invalid
\* line comes before every index of a valid line in the recency list of its
\* set, and the list runs from the least to the most recently used line: the
\* line of the block accessed last is valid and is the list's last element.
C18_LRUOrder ==
    ReplacementPolicy(cache) = CACHE_REPLACEMENTPOLICY_LRU =>
        /\ \A s \in DOMAIN cache.sets :
              \A k, l \in 1..cache.associativity :
                 ( /\ cache.sets[s].lru_list[k] \notin ValidIndices(cache, s)
                   /\ cache.sets[s].lru_list[l] \in ValidIndices(cache, s) ) => k < l
        /\ (hist # << >> /\ Last.op = "read") =>
              LET s == SetIndexOf(cache, Last.address)
                  mru == cache.sets[s].first_index + MruOf(cache, s)
              IN  /\ cache.lines[mru].is_valid
                  /\ cache.lines[mru].tag = TagOf(cache, Last.address)

----------------------------------------------------------------------------
(* Claims about the marks *)

MarkedLines(c, s) == { l \in LinesOf(c, s) : c.lines[l].is_marked }

\* C20: under RANDOMIZED_MARKING on a full set, the line
\* choose_unmarked_cache_line returns is unmarked when it is chosen and marked
\* afterwards; when every line of the set is marked, all marks are cleared
\* first, so that afterwards the chosen line is the only marked one; and the
\* set's num_marked is the number of its marked lines, within
\* [0, associativity].
C20_MarkingBookkeeping ==
    [][ ( /\ Len(victims') = Len(victims) + 1
          /\ ReplacementPolicy(cache) = CACHE_REPLACEMENTPOLICY_RANDOMIZED_MARKING
          /\ SetIsFull(cache, victims'[Len(victims')].set) ) =>
          LET s == victims'[Len(victims')].set
              line == cache.sets[s].first_index + victims'[Len(victims')].index
              all == MarkedLines(cache, s) = LinesOf(cache, s)
          IN  /\ line \in LinesOf(cache, s)
              /\ ~all => line \notin MarkedLines(cache, s)
              /\ ~all => MarkedLines(cache', s) = MarkedLines(cache, s) \cup { line }
              /\ all => MarkedLines(cache', s) = { line }
              /\ cache'.sets[s].num_marked = Cardinality(MarkedLines(cache', s))
              /\ cache'.sets[s].num_marked \in 0..cache.associativity ]_vars

====
